---- MODULE Spec2Model ----
(***************************************************************************)
(* State-machine model of src/cmd/doctree/search.go:                       *)
(*   - pythonIndexer.IndexDir  (lines 94-275), stepped per loop iteration   *)
(*     so that cancellation of the context can interleave with it;          *)
(*   - the "search" subcommand handler (lines 35-51).                       *)
(*                                                                         *)
(* Strings are sequences of one-character strings, so that the string      *)
(* functions of the code (filepath.Ext, strings.Contains, TrimSuffix,      *)
(* ReplaceAll, indexing funcName[0]) are computed, not assumed.            *)
(*                                                                         *)
(* Not modelled: Label and Detail of a Section/Page (docs, parameters and  *)
(* result type are copied from the captures and never read again), and     *)
(* the failure of sitter.NewQuery (lines 157-159, 196-198): both query     *)
(* texts are literals of the source, so it cannot fail at run time.        *)
(***************************************************************************)
EXTENDS Integers, Sequences, FiniteSets, TLC

\* ------------------------------------------------------------ bounds
\* Most files a directory holds.
MaxFiles == 2
\* Most calls of IndexDir over the same directory in one behaviour.
MaxCalls == 2
\* Most command-line arguments handed to the search handler.
MaxArgs == 3

\* ------------------------------------------------------------ strings
\* Byte value of a character (ASCII), for the lexical order of fs.WalkDir.
Ord(c) ==
    CASE c = "." -> 46 [] c = "/" -> 47 [] c = "3" -> 51 [] c = "_" -> 95
      [] c = "a" -> 97 [] c = "b" -> 98 [] c = "c" -> 99 [] c = "d" -> 100
      [] c = "e" -> 101 [] c = "f" -> 102 [] c = "g" -> 103 [] c = "p" -> 112
      [] c = "s" -> 115 [] c = "t" -> 116 [] c = "x" -> 120 [] c = "y" -> 121
      [] OTHER -> 0

\* strings.HasSuffix(s, suf)
HasSuffix(s, suf) ==
    /\ Len(suf) <= Len(s)
    /\ SubSeq(s, Len(s) - Len(suf) + 1, Len(s)) = suf

\* strings.Contains(s, sub)
Contains(s, sub) ==
    \E i \in 1..(Len(s) - Len(sub) + 1) : SubSeq(s, i, i + Len(sub) - 1) = sub

\* strings.TrimSuffix(s, suf)
TrimSuffix(s, suf) ==
    IF HasSuffix(s, suf) THEN SubSeq(s, 1, Len(s) - Len(suf)) ELSE s

\* strings.ReplaceAll(s, old, new) for one-character old and new
ReplaceAll(s, old, new) ==
    [i \in 1..Len(s) |-> IF s[i] = old THEN new ELSE s[i]]

\* filepath.Ext(path): the suffix from the last dot of the last element
\* of path, empty when that element has no dot.
Ext(path) ==
    LET dots == {i \in 1..Len(path) :
                    /\ path[i] = "."
                    /\ \A j \in i..Len(path) : path[j] # "/"}
    IN  IF dots = {} THEN <<>>
        ELSE LET i == CHOOSE d \in dots : \A e \in dots : e <= d
             IN  SubSeq(path, i, Len(path))

\* The elements of a slash-separated path, in order.
RECURSIVE Split(_)
Split(path) ==
    IF \A i \in 1..Len(path) : path[i] # "/" THEN <<path>>
    ELSE LET i == CHOOSE k \in 1..Len(path) :
                     /\ path[k] = "/"
                     /\ \A j \in 1..(k - 1) : path[j] # "/"
         IN  <<SubSeq(path, 1, i - 1)>> \o Split(SubSeq(path, i + 1, Len(path)))

\* Byte-wise order of two file names, as sort.Slice of os.ReadDir orders them.
RECURSIVE NameLess(_, _)
NameLess(a, b) ==
    IF a = <<>> THEN b # <<>>
    ELSE IF b = <<>> THEN FALSE
    ELSE IF Ord(Head(a)) # Ord(Head(b)) THEN Ord(Head(a)) < Ord(Head(b))
    ELSE NameLess(Tail(a), Tail(b))

\* Order of two element lists in a pre-order walk whose directories are
\* read in name order: a directory precedes what it holds.
RECURSIVE ElemsLess(_, _)
ElemsLess(p, q) ==
    IF p = <<>> THEN q # <<>>
    ELSE IF q = <<>> THEN FALSE
    ELSE IF Head(p) # Head(q) THEN NameLess(Head(p), Head(q))
    ELSE ElemsLess(Tail(p), Tail(q))

\* Whether fs.WalkDir visits path p before path q.
WalkBefore(p, q) == ElemsLess(Split(p), Split(q))

\* ------------------------------------------------------------ inputs
\* File paths a directory may hold, relative to dir.
PathC     == <<"c", ".", "p", "y">>
PathAB    == <<"a", "/", "b", ".", "p", "y">>
PathAdotB == <<"a", ".", "b", ".", "p", "y">>
PathD3    == <<"d", ".", "p", "y", "3">>
PathTxt   == <<"e", ".", "t", "x", "t">>
PathTests == <<"t", "e", "s", "t", "s", "/", "c", ".", "p", "y">>
PathUniverse == {PathC, PathAB, PathAdotB, PathD3, PathTxt, PathTests}

\* Names of top-level functions.
NameF      == <<"f">>
NameG      == <<"g">>
NamePriv   == <<"_", "p">>
NameDunder == <<"_", "_", "d", "_", "_">>
NameUnder  == <<"_">>

\* What a file holds: its length in bytes and the names of its top-level
\* function definitions in source order.
FileContents ==
    { [size |-> 0,  funcs |-> <<>>],
      [size |-> 17, funcs |-> <<NameF>>],
      [size |-> 34, funcs |-> <<NameF, NameF>>],
      [size |-> 40, funcs |-> <<NamePriv, NameDunder>>],
      [size |-> 35, funcs |-> <<NameUnder, NameG>>] }

\* The directories of a tree holding the files S; "." is the root.
DirsOf(S) ==
    {<<".">>} \cup
    UNION {{SubSeq(p, 1, i - 1) : i \in {k \in 1..Len(p) : p[k] = "/"}} : p \in S}

----
VARIABLES
    fsys,            \* the directory: file path -> content (never changes)
    pc,              \* IndexDir's position: idle, walk, loop, done
    ctxDone,         \* whether ctx has been cancelled
    sources,         \* var sources []string
    next,            \* index in sources of the loop's next iteration
    files,           \* files
    bytes,           \* bytes
    mods,            \* mods: module name -> moduleInfo
    functionsByMod,  \* functionsByMod: module name -> []schema.Section
    retIndex,        \* the *schema.Index returned
    retErr,          \* the error returned
    calls,           \* calls of IndexDir started
    prevIndex,       \* the Index the previous successful call returned
    dataDirFlag,     \* *dataDirFlag
    projectNameFlag, \* *projectNameFlag
    hArgs,           \* args of the handler's last call
    searchCalls,     \* calls of indexer.Search made by that call
    hRet             \* the error the handler returned

idxVars == <<fsys, pc, ctxDone, sources, next, files, bytes, mods,
             functionsByMod, retIndex, retErr, calls, prevIndex>>
cmdVars == <<dataDirFlag, projectNameFlag, hArgs, searchCalls, hRet>>
vars == <<idxVars, cmdVars>>

\* ------------------------------------------------------------ values
\* nil of type *schema.Index
NilIndex == [nil |-> TRUE]

\* nil of type error
NilErr == [wrap |-> "", kind |-> "nil", path |-> <<>>]

\* errors.Wrap(err, msg) of an *fs.PathError, which names the path
PathError(msg, path) == [wrap |-> msg, kind |-> "PathError", path |-> path]

\* errors.Wrap(ctx.Err(), msg): context.Canceled names no path
CanceledError(msg) == [wrap |-> msg, kind |-> "Canceled", path |-> <<>>]

\* m[k] of a Go map: the zero value (a nil slice) for a missing key
MapGet(m, k) == IF k \in DOMAIN m THEN m[k] ELSE <<>>

\* m[k] = v of a Go map
MapPut(m, k, v) == [x \in (DOMAIN m) \cup {k} |-> IF x = k THEN v ELSE m[x]]

\* The members of a finite set as a sequence, in some order.
RECURSIVE SetToSeq(_)
SetToSeq(S) ==
    IF S = {} THEN <<>>
    ELSE LET x == CHOOSE y \in S : TRUE IN <<x>> \o SetToSeq(S \ {x})

\* ------------------------------------------------------------ IndexDir
\* The paths fs.WalkDir hands to the callback with d.IsDir() false, in the
\* order it does.
WalkedFiles(S) == SortSeq(SetToSeq(S), WalkBefore)

\* ext == ".py" || ext == ".py3"
IsPythonSource(path) ==
    \/ Ext(path) = <<".", "p", "y">>
    \/ Ext(path) = <<".", "p", "y", "3">>

\* sources after the walk
Sources(S) == SelectSeq(WalkedFiles(S), IsPythonSource)

\* IsTestFixture without its third test.
IsTestFixtureNoTests(path) ==
    \/ Contains(path, <<"t", "e", "s", "t", "_">>)
    \/ Contains(path, <<"_", "t", "e", "s", "t">>)

\* The condition of the loop's continue.
IsTestFixture(path) ==
    \/ Contains(path, <<"t", "e", "s", "t", "_">>)
    \/ Contains(path, <<"_", "t", "e", "s", "t">>)
    \/ Contains(path, <<"t", "e", "s", "t", "s">>)

\* modName of a file
ModName(path) == ReplaceAll(TrimSuffix(path, <<".", "p", "y">>), "/", ".")

\* NewModuleInfo holding dir, the argument of IndexDir, for the file's path.
NewModuleInfoDir(path) == [path |-> <<".">>]

\* moduleInfo{path: path, docs: modDocs}
NewModuleInfo(path) == [path |-> path]

\* IsPrivate without the test of the last character.
IsPrivateAnyUnderscore(funcName) ==
    /\ Len(funcName) > 0
    /\ funcName[1] = "_"

\* unexported (private function)
IsPrivate(funcName) ==
    /\ Len(funcName) > 0
    /\ funcName[1] = "_"
    /\ funcName[Len(funcName)] # "_"

\* FuncSection whose SearchKey lacks the module.
FuncSectionBareKey(modName, funcName) ==
    [ID |-> funcName, ShortLabel |-> funcName, SearchKey |-> <<funcName>>]

\* The schema.Section of a function.
FuncSection(modName, funcName) ==
    [ID |-> funcName, ShortLabel |-> funcName,
     SearchKey |-> <<modName, <<".">>, funcName>>]

\* functionsByMod after the matches of the function query, for the
\* function names funcs of one file.
RECURSIVE AddFunctions(_, _, _)
AddFunctions(fbm, modName, funcs) ==
    IF funcs = <<>> THEN fbm
    ELSE IF IsPrivate(Head(funcs)) THEN AddFunctions(fbm, modName, Tail(funcs))
    ELSE AddFunctions(
            MapPut(fbm, modName,
                   Append(MapGet(fbm, modName), FuncSection(modName, Head(funcs)))),
            modName, Tail(funcs))

\* functionsSection
FunctionsSection(children) ==
    [ID |-> "func", ShortLabel |-> "func", Label |-> "Functions",
     SearchKey |-> <<>>, Category |-> TRUE, Children |-> children]

\* The schema.Page of a module.
NewPage(modName, info, children) ==
    [Path |-> info.path, SearchKey |-> <<modName>>,
     Sections |-> <<FunctionsSection(children)>>]

\* The orders in which "for modName, moduleInfo := range mods" may visit
\* the keys: Go leaves the iteration order of a map unspecified.
RangeOrders(m) ==
    {o \in [1..Cardinality(DOMAIN m) -> DOMAIN m] :
        \A i, j \in DOMAIN o : o[i] = o[j] => i = j}

\* pages, for one order of the range over mods
Pages(m, fbm, order) ==
    [i \in DOMAIN order |-> NewPage(order[i], m[order[i]], MapGet(fbm, order[i]))]

\* The schema.Index returned.
NewIndex(nFiles, nBytes, pages) ==
    [NumFiles |-> nFiles, NumBytes |-> nBytes, Pages |-> pages]

\* The locals of IndexDir hold their zero values outside a call.
LocalsCleared ==
    /\ sources' = <<>>
    /\ next' = 1
    /\ files' = 0
    /\ bytes' = 0
    /\ mods' = <<>>
    /\ functionsByMod' = <<>>

\* return idx, err
Return(idx, err) ==
    /\ pc' = "done"
    /\ retIndex' = idx
    /\ retErr' = err
    /\ LocalsCleared
    /\ UNCHANGED <<fsys, ctxDone, calls, prevIndex>>

\* A caller calls IndexDir(ctx, dir) with a ctx of its own. IndexDir reads
\* ctx nowhere before ParseCtx, so a ctx cancelled before the call is the
\* step Cancel taken before the walk.
Call ==
    /\ pc = "idle"
    /\ calls < MaxCalls
    /\ calls' = calls + 1
    /\ pc' = "walk"
    /\ ctxDone' = FALSE
    /\ retIndex' = NilIndex
    /\ retErr' = NilErr
    /\ prevIndex' = IF retIndex # NilIndex THEN retIndex ELSE prevIndex
    /\ LocalsCleared
    /\ UNCHANGED fsys

\* The owner of ctx cancels it while IndexDir runs.
Cancel ==
    /\ pc \in {"walk", "loop"}
    /\ ~ctxDone
    /\ ctxDone' = TRUE
    /\ UNCHANGED <<fsys, pc, sources, next, files, bytes, mods, functionsByMod,
                   retIndex, retErr, calls, prevIndex>>

\* fs.WalkDir returns nil: every directory could be read.
WalkDirOk ==
    /\ pc = "walk"
    /\ sources' = Sources(DOMAIN fsys)
    /\ pc' = "loop"
    /\ UNCHANGED <<fsys, ctxDone, next, files, bytes, mods, functionsByMod,
                   retIndex, retErr, calls, prevIndex>>

\* The callback is handed the error of reading a directory and returns it.
WalkDirFails ==
    /\ pc = "walk"
    /\ \E d \in DirsOf(DOMAIN fsys) : Return(NilIndex, PathError("WalkDir", d))

\* One iteration of the loop over sources: continue.
LoopSkip ==
    /\ pc = "loop"
    /\ next <= Len(sources)
    /\ IsTestFixture(sources[next])
    /\ next' = next + 1
    /\ UNCHANGED <<fsys, pc, ctxDone, sources, files, bytes, mods, functionsByMod,
                   retIndex, retErr, calls, prevIndex>>

\* One iteration: fs.ReadFile fails.
LoopReadFileFails ==
    /\ pc = "loop"
    /\ next <= Len(sources)
    /\ ~IsTestFixture(sources[next])
    /\ Return(NilIndex, PathError("ReadFile", sources[next]))

\* One iteration: parser.ParseCtx fails. The parser is given no timeout and
\* has a language, so it fails only on a cancelled ctx.
LoopParseFails ==
    /\ pc = "loop"
    /\ next <= Len(sources)
    /\ ~IsTestFixture(sources[next])
    /\ ctxDone
    /\ Return(NilIndex, CanceledError("ParseCtx"))

\* One iteration to its end. ParseCtx learns of a cancelled ctx from a
\* goroutine that runs beside the parse, so a parse may also complete when
\* ctx is already cancelled.
LoopIndexFile ==
    /\ pc = "loop"
    /\ next <= Len(sources)
    /\ ~IsTestFixture(sources[next])
    /\ LET path == sources[next]
           modName == ModName(path)
       IN  /\ files' = files + 1
           /\ bytes' = bytes + fsys[path].size
           /\ mods' = MapPut(mods, modName, NewModuleInfo(path))
           /\ functionsByMod' = AddFunctions(functionsByMod, modName, fsys[path].funcs)
    /\ next' = next + 1
    /\ UNCHANGED <<fsys, pc, ctxDone, sources, retIndex, retErr, calls, prevIndex>>

\* After the loop: the pages are built in the order the range over mods
\* yields, and the Index is returned.
ReturnIndex ==
    /\ pc = "loop"
    /\ next > Len(sources)
    /\ \E order \in RangeOrders(mods) :
          Return(NewIndex(files, bytes, Pages(mods, functionsByMod, order)), NilErr)

\* The caller has the result; IndexDir may be called again.
Finish ==
    /\ pc = "done"
    /\ calls < MaxCalls
    /\ pc' = "idle"
    /\ UNCHANGED <<fsys, ctxDone, sources, next, files, bytes, mods, functionsByMod,
                   retIndex, retErr, calls, prevIndex>>

\* ------------------------------------------------------------ search handler
\* An argument: "-name=value" of a defined flag, or (flag empty) a word.
FlagArg(name, value) == [flag |-> name, val |-> value]

\* The arguments a command line may hold.
ArgUniverse ==
    { FlagArg("data-dir", <<"d">>), FlagArg("data-dir", <<>>),
      FlagArg("project", <<"p">>),
      FlagArg("", <<"x">>), FlagArg("", <<"y">>) }

\* What indexer.Search may return as its error; "nil" is none.
SearchErrors == {"nil", "io", "schema", "canceled"}

\* flagSet.Parse(args): the flags before the first word are set, in order;
\* the first word and all after it are the positional arguments.
RECURSIVE FlagSetParse(_, _, _)
FlagSetParse(args, dataDir, project) ==
    IF args = <<>> \/ Head(args).flag = ""
    THEN [dataDir |-> dataDir, project |-> project, rest |-> args]
    ELSE IF Head(args).flag = "data-dir"
    THEN FlagSetParse(Tail(args), Head(args).val, project)
    ELSE FlagSetParse(Tail(args), dataDir, Head(args).val)

\* filepath.Join(a, b) of two clean elements: empty elements are ignored.
Join(a, b) ==
    IF a = <<>> THEN b
    ELSE IF b = <<>> THEN a
    ELSE a \o <<"/">> \o b

\* indexDataDir
IndexDataDir(dataDir) == Join(dataDir, <<"i", "n", "d", "e", "x">>)

\* &cmder.UsageError{}
UsageError == [kind |-> "UsageError", msg |-> "", cause |-> ""]

\* HandlerResult dropping the error of Search.
HandlerResultSwallow(err) == [kind |-> "nil", msg |-> "", cause |-> ""]

\* What the handler returns after Search returned err.
HandlerResult(err) ==
    IF err # "nil"
    THEN [kind |-> "Wrap", msg |-> "Search", cause |-> err]
    ELSE [kind |-> "nil", msg |-> "", cause |-> ""]

\* The handler of the search subcommand, called with args; Search returns err.
Handler(args, err) ==
    LET parsed == FlagSetParse(args, dataDirFlag, projectNameFlag)
    IN  /\ hArgs' = args
        /\ dataDirFlag' = parsed.dataDir
        /\ projectNameFlag' = parsed.project
        /\ IF Len(parsed.rest) # 1
           THEN /\ searchCalls' = <<>>
                /\ hRet' = UsageError
           ELSE /\ searchCalls' = <<[store |-> IndexDataDir(parsed.dataDir),
                                      query |-> parsed.rest[1].val,
                                      project |-> parsed.project,
                                      err |-> err]>>
                /\ hRet' = HandlerResult(err)

\* The command line: at most MaxArgs arguments.
ArgLists == UNION {[1..n -> ArgUniverse] : n \in 0..MaxArgs}

HandlerCalled ==
    \E args \in ArgLists, err \in SearchErrors : Handler(args, err)

InitCmd ==
    /\ dataDirFlag = <<"~">>
    /\ projectNameFlag = <<>>
    /\ hArgs = <<>>
    /\ searchCalls = <<>>
    /\ hRet = [kind |-> "none", msg |-> "", cause |-> ""]

InitIdx ==
    /\ \E S \in SUBSET PathUniverse :
          /\ Cardinality(S) <= MaxFiles
          /\ fsys \in [S -> FileContents]
    /\ pc = "idle"
    /\ ctxDone = FALSE
    /\ sources = <<>>
    /\ next = 1
    /\ files = 0
    /\ bytes = 0
    /\ mods = <<>>
    /\ functionsByMod = <<>>
    /\ retIndex = NilIndex
    /\ retErr = NilErr
    /\ calls = 0
    /\ prevIndex = NilIndex

Init == InitIdx /\ InitCmd

Next ==
    \/ Call /\ UNCHANGED cmdVars
    \/ Cancel /\ UNCHANGED cmdVars
    \/ WalkDirOk /\ UNCHANGED cmdVars
    \/ WalkDirFails /\ UNCHANGED cmdVars
    \/ LoopSkip /\ UNCHANGED cmdVars
    \/ LoopReadFileFails /\ UNCHANGED cmdVars
    \/ LoopParseFails /\ UNCHANGED cmdVars
    \/ LoopIndexFile /\ UNCHANGED cmdVars
    \/ ReturnIndex /\ UNCHANGED cmdVars
    \/ Finish /\ UNCHANGED cmdVars

Spec == Init /\ [][Next]_vars

\* The search subcommand alone, IndexDir never called.
InitSearch ==
    /\ InitCmd
    /\ fsys = <<>>
    /\ pc = "idle"
    /\ ctxDone = FALSE
    /\ sources = <<>>
    /\ next = 1
    /\ files = 0
    /\ bytes = 0
    /\ mods = <<>>
    /\ functionsByMod = <<>>
    /\ retIndex = NilIndex
    /\ retErr = NilErr
    /\ calls = 0
    /\ prevIndex = NilIndex

NextSearch == HandlerCalled /\ UNCHANGED idxVars

SpecSearch == InitSearch /\ [][NextSearch]_vars

\* ------------------------------------------------------------ properties
\* IndexDir has returned an Index.
Succeeded == pc = "done" /\ retIndex # NilIndex

\* The child Sections of the "Functions" Section of a Page.
ChildrenOf(page) == page.Sections[1].Children

\* The files the claims call counted: extension .py or .py3 and a path
\* holding none of "test_", "_test", "tests".
CountedFiles ==
    {p \in DOMAIN fsys :
        /\ Ext(p) \in {<<".", "p", "y">>, <<".", "p", "y", "3">>}
        /\ ~Contains(p, <<"t", "e", "s", "t", "_">>)
        /\ ~Contains(p, <<"_", "t", "e", "s", "t">>)
        /\ ~Contains(p, <<"t", "e", "s", "t", "s">>)}

\* Sum of the lengths of the files S.
RECURSIVE SumSizes(_)
SumSizes(S) ==
    IF S = {} THEN 0
    ELSE LET p == CHOOSE q \in S : TRUE IN fsys[p].size + SumSizes(S \ {p})

\* A name that starts with an underscore and does not end with one.
PrivateName(n) == n[1] = "_" /\ n[Len(n)] # "_"

\* The public functions of file p, in source order.
PublicFuncs(p) == SelectSeq(fsys[p].funcs, LAMBDA n : ~PrivateName(n))

\* C1: in a returned Index no Section is a function whose name starts with
\* an underscore and does not end with one, and every other top-level
\* function of a counted file (a name with leading and trailing underscore,
\* "_" itself, a name with no leading underscore) is a Section of the Page
\* of its module.
C1_VisibilityFilter ==
    Succeeded =>
      /\ \A i \in DOMAIN retIndex.Pages :
            \A j \in DOMAIN ChildrenOf(retIndex.Pages[i]) :
                ~PrivateName(ChildrenOf(retIndex.Pages[i])[j].ID)
      /\ \A p \in CountedFiles : \A k \in DOMAIN fsys[p].funcs :
            ~PrivateName(fsys[p].funcs[k]) =>
                \E i \in DOMAIN retIndex.Pages :
                    /\ retIndex.Pages[i].SearchKey = <<ModName(p)>>
                    /\ \E j \in DOMAIN ChildrenOf(retIndex.Pages[i]) :
                          ChildrenOf(retIndex.Pages[i])[j].ID = fsys[p].funcs[k]

\* C1 witness: an Index returned for counted files that define a private
\* function, a function with leading and trailing underscores, and "_".
C1_Witness ==
    /\ Succeeded
    /\ \E p \in CountedFiles : fsys[p].funcs = <<NamePriv, NameDunder>>
    /\ \E p \in CountedFiles : fsys[p].funcs = <<NameUnder, NameG>>
    /\ \E i \in DOMAIN retIndex.Pages :
          \E j \in DOMAIN ChildrenOf(retIndex.Pages[i]) :
              ChildrenOf(retIndex.Pages[i])[j].ID = NameUnder

\* C2: every call of IndexDir ends either with an Index and a nil error, or
\* with a nil Index and an error that names the offending path.
C2_IndexOrPathError ==
    pc = "done" =>
      \/ retIndex # NilIndex /\ retErr = NilErr
      \/ retIndex = NilIndex /\ retErr # NilErr /\ retErr.path # <<>>

\* C3: a call of IndexDir whose ctx was cancelled before the call, during
\* the walk or during the loop returns no Index. (The claim also asks that
\* the error be a cancellation error; the formula leaves the kind of the
\* error open, so that an I/O error met after the cancellation is not what
\* decides it.)
C3_CancellationObserved ==
    (pc = "done" /\ ctxDone) =>
      retIndex = NilIndex /\ retErr # NilErr

\* C4 as claimed: the SearchKeys of a Page, its "Functions" Section and a
\* function Section, concatenated, are [module, ".", function].
C4_ConcatIsCanonical ==
    Succeeded =>
      \A i \in DOMAIN retIndex.Pages :
        \A j \in DOMAIN ChildrenOf(retIndex.Pages[i]) :
          LET page == retIndex.Pages[i]
              fn == ChildrenOf(page)[j]
          IN  page.SearchKey \o page.Sections[1].SearchKey \o fn.SearchKey
                = <<ModName(page.Path), <<".">>, fn.ID>>

\* C4 as amended: the SearchKey of a function Section alone is the
\* canonical [module, ".", function]; the Page's is [module] and the
\* category's is empty, so the concatenation along the path is
\* [module, module, ".", function], the module token twice.
C4_SectionKeyIsCanonical ==
    Succeeded =>
      \A i \in DOMAIN retIndex.Pages :
        \A j \in DOMAIN ChildrenOf(retIndex.Pages[i]) :
          LET page == retIndex.Pages[i]
              fn == ChildrenOf(page)[j]
              m == ModName(page.Path)
          IN  /\ page.SearchKey = <<m>>
              /\ page.Sections[1].SearchKey = <<>>
              /\ fn.SearchKey = <<m, <<".">>, fn.ID>>
              /\ page.SearchKey \o page.Sections[1].SearchKey \o fn.SearchKey
                    = <<m, m, <<".">>, fn.ID>>

\* C4 witness: a returned Index with a function Section.
C4_Witness ==
    /\ Succeeded
    /\ \E i \in DOMAIN retIndex.Pages :
          /\ retIndex.Pages[i].Path = PathAB
          /\ Len(ChildrenOf(retIndex.Pages[i])) > 0

\* C5: in a returned Index no two child Sections of one "Functions"
\* Section have the same ID.
C5_SiblingIDsUnique ==
    Succeeded =>
      \A i \in DOMAIN retIndex.Pages :
        \A j, k \in DOMAIN ChildrenOf(retIndex.Pages[i]) :
          ChildrenOf(retIndex.Pages[i])[j].ID = ChildrenOf(retIndex.Pages[i])[k].ID
            => j = k

\* C6: on success NumFiles is the number of counted files and NumBytes the
\* sum of their lengths, and every Page and every Section stems from a
\* counted file.
C6_CountsAndSkips ==
    Succeeded =>
      /\ retIndex.NumFiles = Cardinality(CountedFiles)
      /\ retIndex.NumBytes = SumSizes(CountedFiles)
      /\ \A i \in DOMAIN retIndex.Pages :
            /\ retIndex.Pages[i].Path \in CountedFiles
            /\ \A j \in DOMAIN ChildrenOf(retIndex.Pages[i]) :
                  \E q \in CountedFiles :
                    /\ ChildrenOf(retIndex.Pages[i])[j].SearchKey[1] = ModName(q)
                    /\ \E k \in DOMAIN fsys[q].funcs :
                          fsys[q].funcs[k] = ChildrenOf(retIndex.Pages[i])[j].ID

\* C6 witness: an Index returned for a directory holding a counted file
\* that is not empty and a file under tests/ that defines functions.
C6_Witness ==
    /\ Succeeded
    /\ PathTests \in DOMAIN fsys
    /\ fsys[PathTests].funcs # <<>>
    /\ \E p \in CountedFiles : fsys[p].size > 0
    /\ retIndex.NumFiles = 1

\* C7: in a returned Index no two Pages have the same Path.
C7_PagePathsUnique ==
    Succeeded =>
      \A i, j \in DOMAIN retIndex.Pages :
        retIndex.Pages[i].Path = retIndex.Pages[j].Path => i = j

\* C7 witness: an Index returned for two counted files whose module names
\* coincide.
C7_Witness ==
    /\ Succeeded
    /\ {PathAB, PathAdotB} \subseteq DOMAIN fsys
    /\ retIndex.NumFiles = 2
    /\ Len(retIndex.Pages) = 1

\* C8: the handler returns a usage error without calling Search unless
\* there is exactly one positional argument; with one it calls Search once
\* with Join(data-dir, "index"), that argument and the project flag, and
\* returns nil exactly when Search returned no error, else Search's error
\* wrapped.
C8_HandlerNeverSwallows ==
    hRet.kind # "none" =>
      LET words == {i \in DOMAIN hArgs : hArgs[i].flag = ""}
          first == IF words = {} THEN Len(hArgs) + 1
                   ELSE CHOOSE i \in words : \A k \in words : i <= k
          narg == Len(hArgs) - first + 1
      IN  IF narg # 1
          THEN searchCalls = <<>> /\ hRet.kind = "UsageError"
          ELSE /\ Len(searchCalls) = 1
               /\ searchCalls[1].store =
                    (IF dataDirFlag = <<>> THEN <<>> ELSE dataDirFlag \o <<"/">>)
                        \o <<"i", "n", "d", "e", "x">>
               /\ searchCalls[1].query = hArgs[first].val
               /\ searchCalls[1].project = projectNameFlag
               /\ \A i \in 1..(first - 1) :
                     (hArgs[i].flag = "project"
                        /\ \A k \in (i + 1)..(first - 1) : hArgs[k].flag # "project")
                       => projectNameFlag = hArgs[i].val
               /\ hRet.kind = "nil" <=> searchCalls[1].err = "nil"
               /\ searchCalls[1].err # "nil" =>
                     hRet.kind = "Wrap" /\ hRet.cause = searchCalls[1].err

\* C8 witness: the handler was called with a project flag and one word,
\* and Search failed.
C8_Witness ==
    /\ Len(searchCalls) = 1
    /\ searchCalls[1].err = "io"
    /\ searchCalls[1].project = <<"p">>
    /\ hRet.kind = "Wrap"

\* C9: in a returned Index the children of a Page's "Functions" Section
\* are the public functions of the file at the Page's Path, in source
\* order, and every counted file has exactly one Page.
C9_PageHoldsOwnFile ==
    Succeeded =>
      /\ \A i \in DOMAIN retIndex.Pages :
            [j \in DOMAIN ChildrenOf(retIndex.Pages[i]) |->
                ChildrenOf(retIndex.Pages[i])[j].ID]
              = PublicFuncs(retIndex.Pages[i].Path)
      /\ \A p \in CountedFiles :
            Cardinality({i \in DOMAIN retIndex.Pages : retIndex.Pages[i].Path = p}) = 1

\* C10: two calls of IndexDir over the same directory that both return an
\* Index return equal Indexes.
C10_Deterministic ==
    (Succeeded /\ prevIndex # NilIndex) => retIndex = prevIndex

====
